---- MODULE Spec2Model ----
\* A model of app.py: the Chainlit chat front-end of the hybrid chatbot.
\*   - query_bigquery: the wrapper around the analytical backend,
\*   - query_vanna: the relay that drains the NL-to-SQL backend's SSE stream,
\*   - the five action callbacks and the on_message handler (main),
\*   - the asyncio control loop that runs the handlers (SpecLoop).
EXTENDS Integers, Sequences, FiniteSets, TLC

VARIABLES
    handler,          \* the handler of the turn in progress ("none" before any)
    pc,               \* the handler's position
    content,          \* msg.content / thinking_msg.content of the placeholder
    display,          \* what the turn has sent to the chat surface, in order
    backend,          \* what the analytical backend did with the query
    results,          \* query_bigquery's return value
    wpc,              \* query_vanna's position in the executor thread
    status,           \* HTTP status of the response to requests.post (0: none)
    consumed,         \* the lines iter_lines has yielded so far
    ended,            \* how query_vanna left its try block
    final_response,   \* query_vanna's local final_response
    sql_query,        \* query_vanna's local sql_query
    dataframe_data,   \* query_vanna's local dataframe_data
    vanna_result,     \* query_vanna's return value
    task,             \* SpecLoop: each coroutine's handler and position
    running,          \* SpecLoop: the coroutine the loop thread executes (0: none)
    inWorker          \* SpecLoop: coroutines whose call runs in the executor

turnVars == <<handler, pc, content, display, backend, results>>
relayVars == <<wpc, status, consumed, ended, final_response, sql_query,
               dataframe_data, vanna_result>>
loopVars == <<task, running, inWorker>>
vars == <<turnVars, relayVars, loopVars>>

-----------------------------------------------------------------------------
\* Bounds of the model.

\* The longest stream of lines a request reads.
MaxStream == 3
\* The number of user events the control loop has in hand at once.
MaxTasks == 2

-----------------------------------------------------------------------------
\* Python values.

None == [t |-> "none"]
Str(s) == [t |-> "str", v |-> s]
Num(n) == [t |-> "num", n |-> n]
Obj(f) == [t |-> "obj", v |-> f]
List(s) == [t |-> "list", v |-> s]

\* bool(x), as `if vanna_result.get("response")` evaluates it.
Truthy(x) ==
    CASE x.t = "none" -> FALSE
      [] x.t = "str"  -> x.v # ""
      [] x.t = "list" -> x.v # <<>>
      [] x.t = "num"  -> x.n # 0
      [] OTHER        -> TRUE

\* dict.get(key, default)
Get(d, key, default) == IF key \in DOMAIN d THEN d[key] ELSE default

-----------------------------------------------------------------------------
\* The lines response.iter_lines() can yield. A line is blank (a keep-alive),
\* or text with or without the 'data: ' prefix; the text after the prefix is
\* not JSON, or the JSON text of a value.

Invalid == [j |-> "invalid"]
Json(val) == [j |-> "value", val |-> val]
DataLine(body) == [blank |-> FALSE, prefixed |-> TRUE, body |-> body]

\* b''
LineBlank == [blank |-> TRUE, prefixed |-> FALSE, body |-> Invalid]
\* b'event: message'
LineNoPrefix == [blank |-> FALSE, prefixed |-> FALSE, body |-> Invalid]
\* b'data: {oops'
LineBadJson == DataLine(Invalid)
\* b'data: [1]'
LineArray == DataLine(Json(List(<<Num(1)>>)))
\* b'data: 7'
LineNumber == DataLine(Json(Num(7)))
\* b'data: {"conversation_id": "c1"}'
LineUnrecognized == DataLine(Json(Obj([conversation_id |-> Str("c1")])))
\* b'data: {"type": "text", "semantic_type": "intermediate_ai_message", "text": "thinking"}'
LineIntermediate ==
    DataLine(Json(Obj([type |-> Str("text"),
                       semantic_type |-> Str("intermediate_ai_message"),
                       text |-> Str("thinking")])))
\* b'data: {"type": "text", "semantic_type": "final_ai_message", "text": "42"}'
LineFinal42 ==
    DataLine(Json(Obj([type |-> Str("text"),
                       semantic_type |-> Str("final_ai_message"),
                       text |-> Str("42")])))
\* b'data: {"type": "text", "semantic_type": "final_ai_message", "text": ""}'
LineFinalEmpty ==
    DataLine(Json(Obj([type |-> Str("text"),
                       semantic_type |-> Str("final_ai_message"),
                       text |-> Str("")])))
\* b'data: {"type": "text", "semantic_type": "final_ai_message"}'
LineFinalNoText ==
    DataLine(Json(Obj([type |-> Str("text"),
                       semantic_type |-> Str("final_ai_message")])))
\* b'data: {"type": "sql", "sql": "SELECT 1"}'
LineSql == DataLine(Json(Obj([type |-> Str("sql"), sql |-> Str("SELECT 1")])))
\* b'data: {"type": "dataframe", "json_table": {"data": [{"n": 1}]}}'
LineDataframe ==
    DataLine(Json(Obj([type |-> Str("dataframe"),
                       json_table |-> Obj([data |-> List(<<Obj([n |-> Num(1)])>>)])])))
\* b'data: {"type": "dataframe", "json_table": {"schema": "s"}}'
LineDataframeNoData ==
    DataLine(Json(Obj([type |-> Str("dataframe"),
                       json_table |-> Obj([schema |-> Str("s")])])))

Lines ==
    {LineBlank, LineNoPrefix, LineBadJson, LineArray, LineNumber,
     LineUnrecognized, LineIntermediate, LineFinal42, LineFinalEmpty,
     LineFinalNoText, LineSql, LineDataframe, LineDataframeNoData}

-----------------------------------------------------------------------------
\* query_vanna: the body of the loop over the stream's lines.

\* The capture of any record of type 'text', whatever its semantic_type.
IsFinal_AnyText(d) == Get(d, "type", None) = Str("text")

\* data.get('type') == 'text' and data.get('semantic_type') == 'final_ai_message'
IsFinal(d) ==
    /\ Get(d, "type", None) = Str("text")
    /\ Get(d, "semantic_type", None) = Str("final_ai_message")

\* data.get('type') == 'dataframe' and 'json_table' in data
IsDataframe(d) ==
    /\ Get(d, "type", None) = Str("dataframe")
    /\ "json_table" \in DOMAIN d

\* One pass of the loop body over `line` with the locals `acc`: the locals
\* after it, and the exception that left the loop ("none": the loop goes on).
\* Only json.JSONDecodeError is caught inside the loop.
ProcessLine(acc, line) ==
    IF line.blank \/ ~line.prefixed
    THEN [exc |-> "none", acc |-> acc]
    ELSE IF line.body.j = "invalid"
    THEN [exc |-> "none", acc |-> acc]
    ELSE IF line.body.val.t # "obj"
    THEN [exc |-> "AttributeError", acc |-> acc]
    ELSE LET d == line.body.val.v
             a1 == IF IsFinal(d)
                   THEN [acc EXCEPT !.final_response = Get(d, "text", Str(""))]
                   ELSE acc
             a2 == IF "sql" \in DOMAIN d
                   THEN [a1 EXCEPT !.sql_query = d["sql"]]
                   ELSE a1
         IN  IF ~IsDataframe(d)
             THEN [exc |-> "none", acc |-> a2]
             ELSE IF "data" \in DOMAIN d["json_table"].v
             THEN [exc |-> "none",
                   acc |-> [a2 EXCEPT !.dataframe_data = d["json_table"].v["data"]]]
             ELSE [exc |-> "KeyError", acc |-> a2]

\* str(e) of the exceptions the try block of query_vanna can raise.
ExcText(exc) ==
    CASE exc = "ConnectionError" -> "Connection refused"
      [] exc = "ChunkedEncodingError" -> "Connection broken"
      [] exc = "AttributeError" -> "object has no attribute 'get'"  \* after the type's name
      [] exc = "KeyError" -> "'data'"

\* The return of the normal path.
QueryVannaReturn(acc) ==
    [response |-> acc.final_response, sql |-> acc.sql_query,
     dataframe |-> acc.dataframe_data]

\* A handler that hands back what was captured before the exception.
QueryVannaExcept_Partial(exc, acc) == QueryVannaReturn(acc)

\* except Exception as e: return {"error": str(e)}
QueryVannaExcept(exc, acc) == [error |-> Str(ExcText(exc))]

Locals == [final_response |-> final_response, sql_query |-> sql_query,
           dataframe_data |-> dataframe_data]

-----------------------------------------------------------------------------
\* query_bigquery and the rows the analytical backend returns.

\* What the backend does with a query: it accepts it and returns rows, or an
\* exception is raised by client.query ("query"), by query_job.result()
\* ("result") or while list() iterates the result pages ("iterate"); msg is
\* str(e), which may be empty.
Accepted(rows) == [exc |-> "none", msg |-> "", rows |-> rows]
Rejected(at, msg) == [exc |-> at, msg |-> msg, rows |-> <<>>]

\* SUM over no rows is NULL, so total_sales is None when the filter matches
\* nothing. Amounts are in hundredths.
AggregateRows ==
    { <<[total_sales |-> None, total_orders |-> Num(0)]>>,
      <<[total_sales |-> Num(1501), total_orders |-> Num(2)]>>,
      <<[total_sales |-> Num(123456789), total_orders |-> Num(12345)]>> }

Order1 == [order_id |-> Num(7), status |-> Str("Shipped"),
           num_of_item |-> Num(2), order_time |-> Str("2025-05-25 10:00")]
Order2 == [order_id |-> Num(8), status |-> Str("Cancelled"),
           num_of_item |-> Num(1), order_time |-> Str("2025-05-24 09:30")]
OrderRows == { <<>>, <<Order1>>, <<Order1, Order2>>, <<Order2, Order1>> }

ActionHandlers ==
    {"total_sales", "sales_1week", "sales_1month", "sales_6months", "recent_orders"}
Handlers == ActionHandlers \cup {"main"}

BackendOutcomes(h) ==
    {Accepted(r) : r \in IF h = "recent_orders" THEN OrderRows ELSE AggregateRows}
    \cup {Rejected(at, m) : at \in {"query", "result", "iterate"},
                            m \in {"", "403 Access Denied"}}

\* list(results): the rows in the order the iterator yields them.
RECURSIVE ListOf(_)
ListOf(it) == IF it = <<>> THEN <<>> ELSE <<Head(it)>> \o ListOf(Tail(it))

\* query_bigquery with the try block around client.query(sql) alone.
QueryBigquery_Narrow(b) ==
    IF b.exc = "none" THEN [exc |-> "none", ret |-> List(ListOf(b.rows))]
    ELSE IF b.exc = "query" THEN [exc |-> "none", ret |-> Str("Error: " \o b.msg)]
    ELSE [exc |-> b.exc, ret |-> None]

\* query_bigquery(sql): exc is the exception that leaves the function.
QueryBigquery(b) ==
    IF b.exc = "none" THEN [exc |-> "none", ret |-> List(ListOf(b.rows))]
    ELSE [exc |-> "none", ret |-> Str("Error: " \o b.msg)]

-----------------------------------------------------------------------------
\* The f-strings of the handlers.

Pad2(k) == IF k < 10 THEN "0" \o ToString(k) ELSE ToString(k)
Pad3(k) == IF k < 100 THEN "0" \o Pad2(k) ELSE ToString(k)

\* format(n, ','): thousands separated by commas.
RECURSIVE Commas(_)
Commas(n) ==
    IF n < 1000 THEN ToString(n)
    ELSE Commas(n \div 1000) \o "," \o Pad3(n % 1000)

\* f"{x:,.2f}": None has no such format and raises TypeError.
FormatMoney(x) ==
    IF x.t # "num" THEN [exc |-> "TypeError", text |-> ""]
    ELSE [exc |-> "none", text |-> Commas(x.n \div 100) \o "." \o Pad2(x.n % 100)]

\* f"{x:,}"
FormatCount(x) ==
    IF x.t # "num" THEN [exc |-> "TypeError", text |-> ""]
    ELSE [exc |-> "none", text |-> Commas(x.n)]

\* f"{x}"
FormatPlain(x) ==
    CASE x.t = "num" -> ToString(x.n)
      [] x.t = "str" -> x.v
      [] OTHER -> "None"

\* U+274C, the cross mark of the error messages.
CrossMark == "[x]"

LoadingText(h) ==
    CASE h = "total_sales" -> "Calculating total sales..."
      [] h = "sales_1week" -> "Calculating sales for last week of data..."
      [] h = "sales_1month" -> "Calculating sales for last month of data..."
      [] h = "sales_6months" -> "Calculating sales for last 6 months of data..."
      [] h = "recent_orders" -> "Loading recent orders..."

ReportTitle(h) ==
    CASE h = "total_sales" -> "**Total Sales Report (All Time)**"
      [] h = "sales_1week" -> "**Sales Report - Week of May 19-25, 2025**"
      [] h = "sales_1month" -> "**Sales Report - April 26 - May 25, 2025**"
      [] h = "sales_6months" -> "**Sales Report - Nov 2024 - May 2025 (6 months)**"

\* row = results[0] and the report f-string of the four sales handlers.
SalesReport(h, rows) ==
    IF rows = <<>> THEN [exc |-> "IndexError", text |-> ""]
    ELSE LET row == rows[1]
             money == FormatMoney(row.total_sales)
             count == FormatCount(row.total_orders)
         IN  IF money.exc # "none" THEN [exc |-> money.exc, text |-> ""]
             ELSE IF count.exc # "none" THEN [exc |-> count.exc, text |-> ""]
             ELSE [exc |-> "none",
                   text |-> ReportTitle(h) \o " Total Revenue: **$" \o money.text
                            \o "** Total Orders: **" \o count.text \o "**"]

\* for row in results: response += f"**Order #{row.order_id}** | ..."
RECURSIVE OrderLines(_)
OrderLines(rows) ==
    IF rows = <<>> THEN ""
    ELSE "**Order #" \o FormatPlain(Head(rows).order_id) \o "** | "
         \o FormatPlain(Head(rows).status) \o " | "
         \o FormatPlain(Head(rows).num_of_item) \o " items | "
         \o FormatPlain(Head(rows).order_time) \o "; "
         \o OrderLines(Tail(rows))

OrdersReport(rows) == [exc |-> "none", text |-> "**Last 10 Orders** " \o OrderLines(rows)]

\* The if isinstance(results, str) ... else ... of an action callback: the
\* content it gives the placeholder, or the exception that leaves the handler.
FormatResults(h, res) ==
    IF res.t = "str" THEN [exc |-> "none", text |-> CrossMark \o " " \o res.v]
    ELSE IF h = "recent_orders" THEN OrdersReport(res.v)
    ELSE SalesReport(h, res.v)

-----------------------------------------------------------------------------
\* Messages on the chat surface.

Send(text, actions) == [op |-> "send", content |-> text, actions |-> actions]
Update(text) == [op |-> "update", content |-> text, actions |-> "none"]

ThinkingText == "Processing your question with AI..."
NoAnswerText == "No response received from AI. Please try again."
ButtonsText == "What else would you like to know?"
TimeButtonsText == "View sales for a specific time period:"

\* The message send_action_buttons sends: the BUTTONS total_sales, recent_orders.
ButtonsMessage == Send(ButtonsText, "main")

-----------------------------------------------------------------------------
\* A conversation, one user turn at a time.

NoBackend == [exc |-> "idle", msg |-> "", rows |-> <<>>]

Init ==
    /\ handler = "none"
    /\ pc = "idle"
    /\ content = ""
    /\ display = <<>>
    /\ backend = NoBackend
    /\ results = None
    /\ wpc = "idle"
    /\ status = 0
    /\ consumed = <<>>
    /\ ended = "no"
    /\ final_response = None
    /\ sql_query = None
    /\ dataframe_data = None
    /\ vanna_result = None
    /\ task = [i \in 1..MaxTasks |-> [handler |-> "none", pc |-> "idle"]]
    /\ running = 0
    /\ inWorker = {}

\* The chat surface reports a click on a button or a typed question; the
\* handler registered for it starts with fresh locals.
UserEvent ==
    /\ pc \in {"idle", "done", "raised"}
    /\ \E h \in Handlers : handler' = h
    /\ pc' = "start"
    /\ content' = ""
    /\ display' = <<>>
    /\ backend' = NoBackend
    /\ results' = None
    /\ wpc' = "idle"
    /\ status' = 0
    /\ consumed' = <<>>
    /\ ended' = "no"
    /\ final_response' = None
    /\ sql_query' = None
    /\ dataframe_data' = None
    /\ vanna_result' = None
    /\ UNCHANGED loopVars

\* msg = cl.Message(content="... loading ..."); await msg.send()
OnActionSendLoading ==
    /\ handler \in ActionHandlers
    /\ pc = "start"
    /\ content' = LoadingText(handler)
    /\ display' = <<Send(LoadingText(handler), "none")>>
    /\ pc' = "query"
    /\ UNCHANGED <<handler, backend, results, relayVars, loopVars>>

\* results = query_bigquery(sql)
OnActionQuery ==
    /\ handler \in ActionHandlers
    /\ pc = "query"
    /\ \E b \in BackendOutcomes(handler) :
          LET r == QueryBigquery(b)
          IN  /\ backend' = b
              /\ results' = r.ret
              /\ pc' = IF r.exc = "none" THEN "format" ELSE "raised"
    /\ UNCHANGED <<handler, content, display, relayVars, loopVars>>

\* if isinstance(results, str): msg.content = ... else: ... msg.content = response
OnActionFormat ==
    /\ handler \in ActionHandlers
    /\ pc = "format"
    /\ LET f == FormatResults(handler, results)
       IN  /\ content' = IF f.exc = "none" THEN f.text ELSE content
           /\ pc' = IF f.exc = "none" THEN "update" ELSE "raised"
    /\ UNCHANGED <<handler, display, backend, results, relayVars, loopVars>>

\* await msg.update()
OnActionUpdate ==
    /\ handler \in ActionHandlers
    /\ pc = "update"
    /\ display' = Append(display, Update(content))
    /\ pc' = IF handler = "total_sales" THEN "time_buttons" ELSE "buttons"
    /\ UNCHANGED <<handler, content, backend, results, relayVars, loopVars>>

\* on_total_sales: await cl.Message(content="View sales ...", actions=time_actions).send()
OnTotalSalesTimeButtons ==
    /\ handler = "total_sales"
    /\ pc = "time_buttons"
    /\ display' = Append(display, Send(TimeButtonsText, "time"))
    /\ pc' = "buttons"
    /\ UNCHANGED <<handler, content, backend, results, relayVars, loopVars>>

\* await send_action_buttons(), the last statement of a handler
SendActionButtons ==
    /\ pc = "buttons"
    /\ display' = Append(display, ButtonsMessage)
    /\ pc' = "done"
    /\ UNCHANGED <<handler, content, backend, results, relayVars, loopVars>>

-----------------------------------------------------------------------------
\* main (on_message) and query_vanna in its executor thread.

\* thinking_msg = cl.Message(content="... Processing ..."); await thinking_msg.send()
MainSendThinking ==
    /\ handler = "main"
    /\ pc = "start"
    /\ content' = ThinkingText
    /\ display' = <<Send(ThinkingText, "none")>>
    /\ pc' = "submit"
    /\ UNCHANGED <<handler, backend, results, relayVars, loopVars>>

\* vanna_result = await loop.run_in_executor(executor, query_vanna, message.content)
MainRunInExecutor ==
    /\ handler = "main"
    /\ pc = "submit"
    /\ pc' = "await"
    /\ wpc' = "post"
    /\ UNCHANGED <<handler, content, display, backend, results, status, consumed,
                   ended, final_response, sql_query, dataframe_data, vanna_result,
                   loopVars>>

\* requests.post raises (no connection): the except clause returns.
PostRaises ==
    /\ wpc = "post"
    /\ vanna_result' = QueryVannaExcept("ConnectionError", Locals)
    /\ ended' = "ConnectionError"
    /\ wpc' = "returned"
    /\ UNCHANGED <<turnVars, status, consumed, final_response, sql_query,
                   dataframe_data, loopVars>>

\* requests.post returns a response, whatever its status; the locals are set.
PostResponds ==
    /\ wpc = "post"
    /\ \E s \in {200, 500} : status' = s
    /\ final_response' = Str("")
    /\ sql_query' = None
    /\ dataframe_data' = None
    /\ wpc' = "streaming"
    /\ UNCHANGED <<turnVars, consumed, ended, vanna_result, loopVars>>

\* for line in response.iter_lines(): one line and the loop body over it.
IterLines ==
    /\ wpc = "streaming"
    /\ Len(consumed) < MaxStream
    /\ \E line \in Lines :
          LET r == ProcessLine(Locals, line)
          IN  /\ consumed' = Append(consumed, line)
              /\ final_response' = r.acc.final_response
              /\ sql_query' = r.acc.sql_query
              /\ dataframe_data' = r.acc.dataframe_data
              /\ ended' = IF r.exc = "none" THEN ended ELSE r.exc
              /\ wpc' = IF r.exc = "none" THEN "streaming" ELSE "returned"
              /\ vanna_result' = IF r.exc = "none" THEN vanna_result
                                 ELSE QueryVannaExcept(r.exc, r.acc)
    /\ UNCHANGED <<turnVars, status, loopVars>>

\* The stream ends: return {"response": ..., "sql": ..., "dataframe": ...}
StreamEnds ==
    /\ wpc = "streaming"
    /\ vanna_result' = QueryVannaReturn(Locals)
    /\ ended' = "eof"
    /\ wpc' = "returned"
    /\ UNCHANGED <<turnVars, status, consumed, final_response, sql_query,
                   dataframe_data, loopVars>>

\* The connection breaks while iter_lines reads: the except clause returns.
StreamBreaks ==
    /\ wpc = "streaming"
    /\ vanna_result' = QueryVannaExcept("ChunkedEncodingError", Locals)
    /\ ended' = "ChunkedEncodingError"
    /\ wpc' = "returned"
    /\ UNCHANGED <<turnVars, status, consumed, final_response, sql_query,
                   dataframe_data, loopVars>>

\* The branches of main over vanna_result: which text it gives the placeholder.
MainOutcome(res) ==
    IF "error" \in DOMAIN res
    THEN [kind |-> "error", text |-> CrossMark \o " Error: " \o FormatPlain(res["error"])]
    ELSE IF Truthy(Get(res, "response", None))
    THEN [kind |-> "answer", text |-> FormatPlain(res["response"])]
    ELSE [kind |-> "noanswer", text |-> NoAnswerText]

\* The await returns query_vanna's result; thinking_msg.content = ...
MainResume ==
    /\ handler = "main"
    /\ pc = "await"
    /\ wpc = "returned"
    /\ content' = MainOutcome(vanna_result).text
    /\ pc' = IF MainOutcome(vanna_result).kind = "error" THEN "update_error" ELSE "update"
    /\ UNCHANGED <<handler, display, backend, results, relayVars, loopVars>>

\* if "error" in vanna_result: ...; await thinking_msg.update(); return
MainUpdateError ==
    /\ handler = "main"
    /\ pc = "update_error"
    /\ display' = Append(display, Update(content))
    /\ pc' = "done"
    /\ UNCHANGED <<handler, content, backend, results, relayVars, loopVars>>

\* await thinking_msg.update() of the answer or of the no-answer text
MainUpdate ==
    /\ handler = "main"
    /\ pc = "update"
    /\ display' = Append(display, Update(content))
    /\ pc' = "buttons"
    /\ UNCHANGED <<handler, content, backend, results, relayVars, loopVars>>

Next ==
    \/ UserEvent
    \/ OnActionSendLoading
    \/ OnActionQuery
    \/ OnActionFormat
    \/ OnActionUpdate
    \/ OnTotalSalesTimeButtons
    \/ SendActionButtons
    \/ MainSendThinking
    \/ MainRunInExecutor
    \/ PostRaises
    \/ PostResponds
    \/ IterLines
    \/ StreamEnds
    \/ StreamBreaks
    \/ MainResume
    \/ MainUpdateError
    \/ MainUpdate

Spec == Init /\ [][Next]_vars

-----------------------------------------------------------------------------
\* The asyncio control loop: one thread runs the handlers' coroutines, one at a
\* time, each from one await to the next. Only the positions of the handlers
\* are kept here; what they compute is in the actions above.

Tasks == 1..MaxTasks

\* The backend call of coroutine i has begun and has not returned.
Outstanding(i) == task[i].pc = "in_call" \/ i \in inWorker

\* The chat surface reports a user event; its handler waits for the loop.
LoopUserEvent ==
    \E i \in Tasks, h \in Handlers :
        /\ task[i].pc = "idle"
        /\ task' = [task EXCEPT ![i] = [handler |-> h, pc |-> "arrived"]]
        /\ UNCHANGED <<running, inWorker, turnVars, relayVars>>

\* The loop thread is free and starts the handler of a waiting event.
LoopBeginHandler ==
    \E i \in Tasks :
        /\ running = 0
        /\ task[i].pc = "arrived"
        /\ running' = i
        /\ task' = [task EXCEPT ![i].pc = "start"]
        /\ UNCHANGED <<inWorker, turnVars, relayVars>>

\* await msg.send() of the placeholder: the coroutine is suspended.
LoopAwaitSend ==
    \E i \in Tasks :
        /\ running = i
        /\ task[i].pc = "start"
        /\ running' = 0
        /\ task' = [task EXCEPT ![i].pc = "sent"]
        /\ UNCHANGED <<inWorker, turnVars, relayVars>>

\* An await on the chat surface completes and the loop resumes the coroutine.
LoopResume ==
    \E i \in Tasks :
        /\ running = 0
        /\ task[i].pc \in {"sent", "updated", "time_sent"}
        /\ running' = i
        /\ task' = [task EXCEPT ![i].pc =
                       CASE task[i].pc = "sent" -> "call"
                         [] task[i].pc = "updated" ->
                              IF task[i].handler = "total_sales" THEN "time_buttons"
                              ELSE "buttons"
                         [] task[i].pc = "time_sent" -> "buttons"]
        /\ UNCHANGED <<inWorker, turnVars, relayVars>>

\* An action callback: results = query_bigquery(sql), called by the coroutine
\* itself, so the loop thread executes client.query and query_job.result().
LoopQueryBigquery ==
    \E i \in Tasks :
        /\ running = i
        /\ task[i].handler \in ActionHandlers
        /\ task[i].pc = "call"
        /\ task' = [task EXCEPT ![i].pc = "in_call"]
        /\ UNCHANGED <<running, inWorker, turnVars, relayVars>>

\* query_bigquery returns to the coroutine, which formats the result.
LoopQueryReturns ==
    \E i \in Tasks :
        /\ running = i
        /\ task[i].pc = "in_call"
        /\ task' = [task EXCEPT ![i].pc = "update"]
        /\ UNCHANGED <<running, inWorker, turnVars, relayVars>>

\* main: await loop.run_in_executor(executor, query_vanna, message.content):
\* a thread of the pool runs query_vanna and the coroutine is suspended.
LoopRunInExecutor ==
    \E i \in Tasks :
        /\ running = i
        /\ task[i].handler = "main"
        /\ task[i].pc = "call"
        /\ inWorker' = inWorker \cup {i}
        /\ running' = 0
        /\ task' = [task EXCEPT ![i].pc = "awaiting"]
        /\ UNCHANGED <<turnVars, relayVars>>

\* query_vanna returns in its thread: the future is done.
LoopWorkerReturns ==
    \E i \in inWorker :
        /\ inWorker' = inWorker \ {i}
        /\ UNCHANGED <<task, running, turnVars, relayVars>>

\* The loop resumes main with the result of the future, an error or not.
LoopResumeMain ==
    \E i \in Tasks, failed \in BOOLEAN :
        /\ running = 0
        /\ task[i].pc = "awaiting"
        /\ i \notin inWorker
        /\ running' = i
        /\ task' = [task EXCEPT ![i].pc = IF failed THEN "update_error" ELSE "update"]
        /\ UNCHANGED <<inWorker, turnVars, relayVars>>

\* await msg.update(): the coroutine is suspended; main returns after the
\* update of an error.
LoopAwaitUpdate ==
    \E i \in Tasks :
        /\ running = i
        /\ task[i].pc \in {"update", "update_error"}
        /\ running' = 0
        /\ task' = [task EXCEPT ![i].pc =
                       IF task[i].pc = "update_error" THEN "idle" ELSE "updated"]
        /\ UNCHANGED <<inWorker, turnVars, relayVars>>

\* on_total_sales: await cl.Message(..., actions=time_actions).send()
LoopAwaitTimeButtons ==
    \E i \in Tasks :
        /\ running = i
        /\ task[i].pc = "time_buttons"
        /\ running' = 0
        /\ task' = [task EXCEPT ![i].pc = "time_sent"]
        /\ UNCHANGED <<inWorker, turnVars, relayVars>>

\* await send_action_buttons(): the handler's last await, after which it ends.
LoopAwaitButtons ==
    \E i \in Tasks :
        /\ running = i
        /\ task[i].pc = "buttons"
        /\ running' = 0
        /\ task' = [task EXCEPT ![i].pc = "idle"]
        /\ UNCHANGED <<inWorker, turnVars, relayVars>>

NextLoop ==
    \/ LoopUserEvent
    \/ LoopBeginHandler
    \/ LoopAwaitSend
    \/ LoopResume
    \/ LoopQueryBigquery
    \/ LoopQueryReturns
    \/ LoopRunInExecutor
    \/ LoopWorkerReturns
    \/ LoopResumeMain
    \/ LoopAwaitUpdate
    \/ LoopAwaitTimeButtons
    \/ LoopAwaitButtons

SpecLoop == Init /\ [][NextLoop]_vars

-----------------------------------------------------------------------------
\* The vocabulary of the claims, read off the stream and the results
\* themselves, not off the locals of query_vanna.

FinalLines == {LineFinal42, LineFinalEmpty, LineFinalNoText}

\* Lines that are malformed or carry nothing recognized.
MalformedLines ==
    {LineNoPrefix, LineBadJson, LineArray, LineNumber, LineUnrecognized,
     LineDataframeNoData}

FinalSeen == \E i \in DOMAIN consumed : consumed[i] \in FinalLines
OnlyMalformed == \A i \in DOMAIN consumed : consumed[i] \in MalformedLines

TransportFaults == {"ConnectionError", "ChunkedEncodingError"}

\* query_vanna has returned, and the stream it read ended without a fault of
\* the transport.
ReturnedNoFault == wpc = "returned" /\ ended \notin TransportFaults

\* The three outcomes of the relay.
IsFailure(res) == "error" \in DOMAIN res
IsNoAnswer(res) == DOMAIN res = {"response", "sql", "dataframe"} /\ res["response"] = Str("")
IsAnswer(res) ==
    /\ DOMAIN res = {"response", "sql", "dataframe"}
    /\ res["response"].t = "str"
    /\ res["response"].v # ""

ErrorTexts ==
    {CrossMark \o " Error: " \o ExcText(e) :
        e \in {"ConnectionError", "ChunkedEncodingError", "AttributeError", "KeyError"}}

\* The texts the turn showed that are neither the placeholder nor a buttons message.
RECURSIVE Forwarded(_)
Forwarded(d) ==
    IF d = <<>> THEN <<>>
    ELSE IF Head(d).op = "send" /\ Head(d).content \in {ThinkingText, ButtonsText}
    THEN Forwarded(Tail(d))
    ELSE <<Head(d).content>> \o Forwarded(Tail(d))

RECURSIVE Updates(_)
Updates(d) ==
    IF d = <<>> THEN 0
    ELSE (IF Head(d).op = "update" THEN 1 ELSE 0) + Updates(Tail(d))

MainDone == handler = "main" /\ pc = "done"

-----------------------------------------------------------------------------
\* C1: whenever the stream ends without a transport fault, query_vanna returns
\* the final answer if a final-answer record was among the records, and the
\* no-answer outcome (an empty 'response') otherwise.
C1_FinalAnswerIffSeen ==
    ReturnedNoFault =>
        IF FinalSeen THEN IsAnswer(vanna_result) ELSE IsNoAnswer(vanna_result)

\* C2: whenever the transport fails, by an exception of the request or of the
\* stream or by a non-success HTTP status, query_vanna returns Failure.
C2_TransportFailureIsFailure ==
    (wpc = "returned" /\ (ended \in TransportFaults \/ status = 500))
        => IsFailure(vanna_result)

\* C3: a stream of malformed or unrecognized records alone yields the
\* no-answer outcome, and no such record makes query_vanna leave the loop.
C3_MalformedAreSkipped ==
    /\ ended \notin {"AttributeError", "KeyError"}
    /\ (ReturnedNoFault /\ OnlyMalformed) => IsNoAnswer(vanna_result)

\* C4 as claimed: for the stream [intermediate 'thinking', final '42'] two
\* events reach the display surface, 'thinking' and then '42'.
C4_EventsForwardedInOrder ==
    (MainDone /\ ended = "eof" /\ consumed = <<LineIntermediate, LineFinal42>>)
        => Forwarded(display) = <<"thinking", "42">>

\* C4 as amended: nothing of the stream reaches the display surface while
\* the stream is read and intermediate text never reaches it; the display gets
\* the placeholder and, once query_vanna has returned, one update of it. For
\* the stream [intermediate 'thinking', final '42'] the response returned is
\* '42' and the display shows the placeholder, its update to '42', the buttons.
C4_OnlyFinalAnswerShown ==
    /\ wpc \in {"post", "streaming"} => display = <<Send(ThinkingText, "none")>>
    /\ handler = "main" =>
          /\ Updates(display) <= 1
          /\ \A i \in DOMAIN display : display[i].content # "thinking"
    /\ (MainDone /\ ended = "eof" /\ consumed = <<LineIntermediate, LineFinal42>>)
          => /\ vanna_result["response"] = Str("42")
             /\ display = <<Send(ThinkingText, "none"), Update("42"), ButtonsMessage>>

C4_Witness ==
    /\ MainDone
    /\ ended = "eof"
    /\ consumed = <<LineIntermediate, LineFinal42>>
    /\ Len(display) = 3

\* C5: query_bigquery never raises: it returns the backend's rows as a list in
\* the backend's order when the backend accepts the query, and a string that
\* is not empty for an exception raised by client.query, by query_job.result()
\* or while the rows are listed.
C5_QueryBigqueryTotal ==
    (handler \in ActionHandlers /\ backend.exc # "idle") =>
        /\ backend.exc = "none" => results = List(backend.rows)
        /\ backend.exc # "none" => (results.t = "str" /\ Len(results.v) > 0)

C5_Witness ==
    /\ handler \in ActionHandlers
    /\ pc = "format"
    /\ backend = Rejected("result", "")
    /\ results = Str("Error: ")

\* C6: no handler raises: whatever the backend call returned, the handler
\* goes on to update its placeholder.
C6_NoFaultEscapes == pc # "raised"

\* C7: a backend call that is outstanding runs in the executor and the
\* coroutine that started it is suspended, so the loop thread is not the one
\* that waits for the network.
C7_ControlLoopNeverBlocks ==
    \A i \in Tasks : Outstanding(i) => (i \in inWorker /\ running # i)

\* C8: when the stream breaks, whatever was captured before, query_vanna
\* returns the Failure outcome alone and main shows the error text, not the
\* captured answer.
C8_StreamFaultDropsPartial ==
    ended = "ChunkedEncodingError" =>
        /\ vanna_result = [error |-> Str("Connection broken")]
        /\ pc = "update_error" => content = CrossMark \o " Error: Connection broken"
        /\ pc = "done" =>
              display = <<Send(ThinkingText, "none"),
                          Update(CrossMark \o " Error: Connection broken")>>

C8_Witness ==
    /\ MainDone
    /\ ended = "ChunkedEncodingError"
    /\ final_response = Str("42")
    /\ sql_query = Str("SELECT 1")
    /\ dataframe_data # None
    /\ Len(display) = 2

\* C9: a stream that completes without a final answer ends with the no-answer
\* text on the placeholder and a transport failure ends with the error text,
\* never the other way round.
C9_OutcomeTextsTellApart ==
    (MainDone /\ Len(display) >= 2) =>
        /\ (ended \notin TransportFaults /\ status = 200 /\ ~FinalSeen)
              => display[2] = Update(NoAnswerText)
        /\ (ended \in TransportFaults \/ status = 500)
              => (display[2].op = "update" /\ display[2].content \in ErrorTexts)

\* C10: every turn a handler completes ends with the main buttons as the
\* last message sent.
C10_TurnEndsWithButtons ==
    pc = "done" => (display # <<>> /\ display[Len(display)] = ButtonsMessage)

====
